---- MODULE Spec2Model ----
(***************************************************************************)
(* Subtitle-synchronised slideshow assembly: the Flask handler             *)
(* create_video of app.py and the standalone script turner.py.             *)
(*                                                                         *)
(* Times are integers in milliseconds (the code uses float seconds).       *)
(* A path is a 4-tuple <<directory, stem, index, extension>>.              *)
(* A file is a record [owner, data]: the process that wrote it and what    *)
(* it wrote.  The file system fs is a function whose DOMAIN is the set of  *)
(* paths that exist.                                                       *)
(***************************************************************************)
EXTENDS Integers, Sequences, FiniteSets, TLC

\* ------------------------------------------------------------------ bounds
\* Most cues in a subtitle track and longest image list a single worker sees.
MaxCues == 5
MaxImages == 3

\* ------------------------------------------------------- program constants
\* `+= 5` and `+ 5`: the trailing buffer, in milliseconds.
TrailingBuffer == 5000

Handlers == {"h1", "h2"}
Procs == Handlers \cup {"script"}

\* ------------------------------------------------------------ small helpers
Max(a, b) == IF a >= b THEN a ELSE b
Min(a, b) == IF a <= b THEN a ELSE b

SeqsUpTo(S, n) == UNION { [1..k -> S] : k \in 0..n }

\* ------------------------------------------------------------------- paths
Join(dir, name) == <<dir, name[1], name[2], name[3]>>
Dirname(path) == path[1]
Basename(path) == <<path[2], path[3], path[4]>>

\* ------------------------------------------------------ subtitle track text
\* A line of the track: whether re.match finds the cue-boundary pattern at its
\* start, and the eight digit groups it captures (HH, MM, SS, mmm twice).
CueLine(g) == [match |-> TRUE, g |-> g]
TextLine == [match |-> FALSE, g |-> <<0, 0, 0, 0, 0, 0, 0, 0>>]

\* 00:00:01,000 --> 00:00:02,004   (1.004 s, rounds down to 1.00)
LineA == CueLine(<<0, 0, 1, 0, 0, 0, 2, 4>>)
\* 01:00:00,496 --> 00:59:58,500   (end before start: -1.996 s, rounds to -2.00)
LineB == CueLine(<<1, 0, 0, 496, 0, 59, 58, 500>>)

CueLines == {LineA, LineB}

\* A track is either bare cue lines, or every cue written as a block (index
\* line, cue line, text line), or text without any cue.
RECURSIVE Blocks(_)
Blocks(cues) ==
  IF cues = <<>> THEN <<>>
  ELSE <<TextLine, Head(cues), TextLine>> \o Blocks(Tail(cues))

\* A parser that keeps the difference as it is.
Round2_unrounded(d) == d

\* round(x, 2) on a difference given in milliseconds: the nearest multiple of
\* 10 ms.  A difference ending in 5 ms is a tie that the float representation
\* decides; no line of CueLines produces one.
Round2(d) ==
  LET q == d \div 10
      r == d % 10
  IN  IF r < 5 THEN q * 10
      ELSE IF r > 5 THEN (q + 1) * 10
      ELSE IF q % 2 = 0 THEN q * 10 ELSE (q + 1) * 10

\* A parser that drops the milliseconds of the end timestamp.
end_time_whole_seconds(g) == g[5] * 3600000 + g[6] * 60000 + g[7] * 1000

start_time(g) == g[1] * 3600000 + g[2] * 60000 + g[3] * 1000 + g[4]
end_time(g) == g[5] * 3600000 + g[6] * 60000 + g[7] * 1000 + g[8]

\* A parser that subtracts the end timestamp from the start timestamp.
RECURSIVE parse_loop_swapped(_, _, _)
parse_loop_swapped(lines, i, acc) ==
  IF i > Len(lines) THEN acc
  ELSE IF lines[i].match
       THEN LET duration == Round2(start_time(lines[i].g) - end_time(lines[i].g))
            IN  parse_loop_swapped(lines, i + 1,
                  [durations |-> Append(acc.durations, duration),
                   last_timestamp |-> end_time(lines[i].g),
                   last_subtitle_duration |-> duration])
       ELSE parse_loop_swapped(lines, i + 1, acc)

RECURSIVE parse_loop(_, _, _)
parse_loop(lines, i, acc) ==
  IF i > Len(lines) THEN acc
  ELSE IF lines[i].match
       THEN LET duration == Round2(end_time(lines[i].g) - start_time(lines[i].g))
            IN  parse_loop(lines, i + 1,
                  [durations |-> Append(acc.durations, duration),
                   last_timestamp |-> end_time(lines[i].g),
                   last_subtitle_duration |-> duration])
       ELSE parse_loop(lines, i + 1, acc)

parse_srt_durations(lines) ==
  parse_loop(lines, 1,
    [durations |-> <<>>, last_timestamp |-> 0, last_subtitle_duration |-> 0])

\* ------------------------------------------------------- duration allocator
RECURSIVE sum(_)
sum(s) == IF s = <<>> THEN 0 ELSE Head(s) + sum(Tail(s))

\* Python's s[lo:hi] for 0 <= lo <= hi: indices beyond the end contribute nothing.
Slice(s, lo, hi) ==
  LET a == Min(lo, Len(s))
      b == Min(hi, Len(s))
  IN  [k \in 1..(b - a) |-> s[a + k]]

\* `x[-1] += 5` on a non-empty list.
extend_last(s) == [s EXCEPT ![Len(s)] = @ + TrailingBuffer]

\* An allocator without the `max(1, ...)` guard.
subtitles_per_image_unguarded(D, n) == Len(D) \div n
\* An allocator that rounds the block size up, spreading the remainder.
subtitles_per_image_ceil(D, n) == Max(1, (Len(D) + n - 1) \div n)

subtitles_per_image(D, n) == Max(1, Len(D) \div n)

\* An allocator whose slice takes one element too many.
assign_durations_inclusive(D, n) ==
  [i \in 1..n |->
     LET start_index == (i - 1) * subtitles_per_image(D, n)
         end_index == start_index + subtitles_per_image(D, n)
     IN  sum(Slice(D, start_index, end_index + 1))]

\* The loop `for i in range(num_images)`.
assign_durations(D, n) ==
  [i \in 1..n |->
     LET start_index == (i - 1) * subtitles_per_image(D, n)
         end_index == start_index + subtitles_per_image(D, n)
     IN  sum(Slice(D, start_index, end_index))]

\* An allocator that leaves the last image as the loop computed it.
extend_last_image_skipped(durs) == durs

\* `if image_durations: image_durations[-1] += 5`
extend_last_image(durs) == IF durs # <<>> THEN extend_last(durs) ELSE durs

\* ------------------------------------------------------------------- state
VARIABLES
  workers,                 \* the processes this deployment runs
  pc,                      \* each process's position in its code
  fs,                      \* the file system: path -> [owner, data]
  dirs,                    \* the directories that exist
  bucket,                  \* objects uploaded to the storage bucket
  data,                    \* the request's JSON payload
  lines,                   \* the subtitle lines parse_srt_durations read
  subtitle_durations,
  last_subtitle_timestamp,
  final_video_duration,
  local_image_paths,       \* image_files in turner.py
  image_durations,
  calls,                   \* encoder and publisher invocations that returned, in order
  fetches,                 \* download_to_tmp calls and their outcomes, in order
  staged,                  \* paths the process has written and not deleted
  resp                     \* the response returned (exit status for the script)

locals == <<lines, subtitle_durations, last_subtitle_timestamp,
            final_video_duration, local_image_paths, image_durations>>
vars == <<workers, pc, fs, dirs, bucket, data, locals, calls, fetches, staged,
          resp>>

\* ------------------------------------------------------------- file system
File(owner, content) == [owner |-> owner, data |-> content]
Write(f, path, file) ==
  [q \in (DOMAIN f) \cup {path} |-> IF q = path THEN file ELSE f[q]]
Remove(f, path) == [q \in (DOMAIN f) \ {path} |-> f[q]]
Exists(f, path) == path \in DOMAIN f
listdir(f, dir) == {q \in DOMAIN f : Dirname(q) = dir}

\* safe_delete: remove the file if it exists, ignore errors.
safe_delete(f, path) == IF Exists(f, path) THEN Remove(f, path) ELSE f

RECURSIVE safe_delete_all(_, _)
safe_delete_all(f, paths) ==
  IF paths = {} THEN f
  ELSE LET p == CHOOSE q \in paths : TRUE
       IN  safe_delete_all(safe_delete(f, p), paths \ {p})

\* download_to_tmp: the GET fails before the file is opened ("http_error"), or
\* opening the file fails because its directory is gone, or the stream breaks
\* after the file was opened ("stream_error", a truncated file stays), or all
\* of the content arrives ("ok").
DownloadOutcomes == {"ok", "http_error", "stream_error"}
Fetch(what, idx, outcome) == [what |-> what, idx |-> idx, outcome |-> outcome]
Truncated == <<>>
download_to_tmp(f, r, local_path, content, outcome) ==
  IF outcome = "http_error" THEN f
  ELSE Write(f, local_path, File(r, IF outcome = "ok" THEN content ELSE Truncated))

\* ------------------------------------------------- the handler's local paths
TmpDir == "/tmp"
local_subtitle_path == Join(TmpDir, <<"subtitle", 0, ".srt">>)
local_audio_path == Join(TmpDir, <<"audio", 0, ".mp3">>)
temp_video_path == Join(TmpDir, <<"temp_video", 0, ".mp4">>)
image_list_file == Join(TmpDir, <<"image_list", 0, ".txt">>)
local_image_folder == "/tmp/images"
local_output_path(r) == Join(TmpDir, data[r].output_name)

\* local_img_path for the idx-th URL: image_{idx}{ext}, ext falling back to .jpg
local_img_path(idx, img_url) ==
  Join(local_image_folder,
       <<"image_", idx, IF img_url.ext = "" THEN ".jpg" ELSE img_url.ext>>)

\* ---------------------------------------------------------------- requests
UrlPng == [base |-> "a", ext |-> ".png"]
UrlNoExt == [base |-> "b", ext |-> ""]
DefaultOutputName == <<"final_video", 0, ".mp4">>
OtherOutputName == <<"clip", 0, ".mp4">>
TempVideoOutputName == <<"temp_video", 0, ".mp4">>
NoName == <<"", 0, "">>

\* What clients and the remote store supply.  With one worker: every image
\* list of up to MaxImages URLs that alternates between the two URLs, every
\* track of up to MaxCues cues.  With two concurrent workers: one image and
\* at most one cue each.
Concurrent == Cardinality(workers) > 1
RECURSIVE Alternating(_, _, _)
Alternating(k, first, second) ==
  IF k = 0 THEN <<>> ELSE <<first>> \o Alternating(k - 1, second, first)
ImageLists ==
  IF Concurrent THEN {<<>>, <<UrlPng>>}
  ELSE {Alternating(k, UrlPng, UrlNoExt) : k \in 0..MaxImages}
       \cup {Alternating(k, UrlNoExt, UrlPng) : k \in 0..MaxImages}
CueSeqs ==
  IF Concurrent THEN {<<>>, <<LineA>>} ELSE SeqsUpTo(CueLines, MaxCues)
SrtTexts == CueSeqs \cup {Blocks(cues) : cues \in CueSeqs} \cup {<<TextLine>>}
OutputNames ==
  IF Concurrent THEN {DefaultOutputName}
  ELSE {DefaultOutputName, OtherOutputName, TempVideoOutputName}

Body(json, images_urls, audio_url, subtitle_url, bucket_name, output_name) ==
  [json |-> json, images_urls |-> images_urls, audio_url |-> audio_url,
   subtitle_url |-> subtitle_url, bucket_name |-> bucket_name,
   output_name |-> output_name]
NoBody == Body(FALSE, <<>>, FALSE, FALSE, FALSE, DefaultOutputName)

\* Payloads a client may post: the complete ones, and one of each incomplete kind.
Bodies ==
  { Body(TRUE, l, TRUE, TRUE, TRUE, o) : l \in ImageLists \ {<<>>}, o \in OutputNames }
  \cup { NoBody,
         Body(TRUE, <<>>, TRUE, TRUE, TRUE, DefaultOutputName),
         Body(TRUE, <<UrlPng>>, FALSE, TRUE, TRUE, DefaultOutputName),
         Body(TRUE, <<UrlPng>>, TRUE, FALSE, TRUE, DefaultOutputName),
         Body(TRUE, <<UrlPng>>, TRUE, TRUE, FALSE, DefaultOutputName) }

\* --------------------------------------------------------------- responses
Response(status, error, duration, url) ==
  [status |-> status, error |-> error,
   final_duration_seconds |-> duration, gcs_url |-> url]
NoResponse == Response(0, "", 0, NoName)
Error(status, error) == Response(status, error, 0, NoName)

Call(op, ok, t) == [op |-> op, ok |-> ok, t |-> t]

\* ------------------------------------------------------------------- Init
Deployments == {{"h1"}, {"h1", "h2"}, {"script"}}

Init ==
  /\ workers \in Deployments
  /\ pc = [r \in Procs |-> "start"]
  /\ fs = <<>>
  /\ dirs = {}
  /\ bucket = {}
  /\ data = [r \in Procs |-> NoBody]
  /\ lines = [r \in Procs |-> <<>>]
  /\ subtitle_durations = [r \in Procs |-> <<>>]
  /\ last_subtitle_timestamp = [r \in Procs |-> 0]
  /\ final_video_duration = [r \in Procs |-> 0]
  /\ local_image_paths = [r \in Procs |-> <<>>]
  /\ image_durations = [r \in Procs |-> <<>>]
  /\ calls = [r \in Procs |-> <<>>]
  /\ fetches = [r \in Procs |-> <<>>]
  /\ staged = [r \in Procs |-> {}]
  /\ resp = [r \in Procs |-> NoResponse]

\* The process returns: the response is sent and the process ends.
Return(r, response) ==
  /\ pc' = [pc EXCEPT ![r] = "done"]
  /\ resp' = [resp EXCEPT ![r] = response]
Goto(r, label) ==
  /\ pc' = [pc EXCEPT ![r] = label]
  /\ resp' = resp

\* --------------------------------------------------- create_video (app.py)
\* A download whose HTTP status is never looked at: only a broken stream raises.
raised_without_status_check(outcome) == outcome = "stream_error"

\* r.raise_for_status() and the exceptions of the streaming loop: does
\* download_to_tmp raise into the caller's `except Exception`?
raised(outcome) == outcome # "ok"

\* A validation that forgets the bucket name.
missing_required_but_bucket(body) ==
  body.images_urls = <<>> \/ ~body.audio_url \/ ~body.subtitle_url

\* `if not images_urls or not audio_url or not subtitle_url or not bucket_name`
missing_required(body) ==
  body.images_urls = <<>> \/ ~body.audio_url \/ ~body.subtitle_url
    \/ ~body.bucket_name

\* request.get_json(), field extraction and validation.
Validate(r) ==
  /\ r \in workers \cap Handlers
  /\ pc[r] = "start"
  /\ \E body \in Bodies :
       /\ data' = [data EXCEPT ![r] = body]
       /\ IF ~body.json
          THEN Return(r, Error(400, "No JSON payload provided"))
          ELSE IF missing_required(body)
               THEN Return(r, Error(400, "Missing required fields in JSON"))
               ELSE Goto(r, "makedirs")
  /\ UNCHANGED <<workers, fs, dirs, bucket, locals, calls, fetches, staged>>

\* os.makedirs(local_image_folder, exist_ok=True)
MakeDirs(r) ==
  /\ r \in Handlers
  /\ pc[r] = "makedirs"
  /\ dirs' = dirs \cup {local_image_folder}
  /\ Goto(r, "download_audio")
  /\ UNCHANGED <<workers, fs, bucket, data, locals, calls, fetches, staged>>

DownloadAudio(r) ==
  /\ r \in Handlers
  /\ pc[r] = "download_audio"
  /\ \E outcome \in DownloadOutcomes :
       /\ fs' = download_to_tmp(fs, r, local_audio_path, <<>>, outcome)
       /\ fetches' = [fetches EXCEPT ![r] = Append(@, Fetch("audio", 0, outcome))]
       /\ staged' = [staged EXCEPT ![r] =
            IF outcome = "http_error" THEN @ ELSE @ \cup {local_audio_path}]
       /\ IF ~raised(outcome)
          THEN Goto(r, "download_subtitle")
          ELSE Return(r, Error(500, "Failed to download audio or subtitle"))
  /\ UNCHANGED <<workers, dirs, bucket, data, locals, calls>>

DownloadSubtitle(r) ==
  /\ r \in Handlers
  /\ pc[r] = "download_subtitle"
  /\ \E outcome \in DownloadOutcomes, text \in SrtTexts :
       /\ outcome # "ok" => text = <<>>
       /\ fs' = download_to_tmp(fs, r, local_subtitle_path, text, outcome)
       /\ fetches' = [fetches EXCEPT ![r] = Append(@, Fetch("subtitle", 0, outcome))]
       /\ staged' = [staged EXCEPT ![r] =
            IF outcome = "http_error" THEN @ ELSE @ \cup {local_subtitle_path}]
       /\ IF ~raised(outcome)
          THEN Goto(r, "parse")
          ELSE Return(r, Error(500, "Failed to download audio or subtitle"))
  /\ UNCHANGED <<workers, dirs, bucket, data, locals, calls>>

\* parse_srt_durations on the local subtitle file, the empty check, the
\* extension of the last cue and the final duration.
ParseSrt(r) ==
  /\ r \in Handlers
  /\ pc[r] = "parse"
  /\ IF ~Exists(fs, local_subtitle_path)
     THEN /\ Return(r, Error(500, "Internal Server Error"))
          /\ UNCHANGED locals
     ELSE LET text == fs[local_subtitle_path].data
              parsed == parse_srt_durations(text)
          IN  /\ lines' = [lines EXCEPT ![r] = text]
              /\ last_subtitle_timestamp' =
                   [last_subtitle_timestamp EXCEPT ![r] = parsed.last_timestamp]
              /\ IF parsed.durations = <<>>
                 THEN /\ Return(r, Error(400, "No valid subtitles parsed from SRT"))
                      /\ UNCHANGED <<subtitle_durations, final_video_duration>>
                 ELSE /\ subtitle_durations' =
                           [subtitle_durations EXCEPT ![r] = extend_last(parsed.durations)]
                      /\ final_video_duration' =
                           [final_video_duration EXCEPT ![r] =
                              parsed.last_timestamp + TrailingBuffer]
                      /\ Goto(r, "download_images")
              /\ UNCHANGED <<local_image_paths, image_durations>>
  /\ UNCHANGED <<workers, fs, dirs, bucket, data, calls, fetches, staged>>

\* One iteration of `for idx, img_url in enumerate(images_urls, start=1)`.
DownloadImage(r) ==
  /\ r \in Handlers
  /\ pc[r] = "download_images"
  /\ LET idx == Len(local_image_paths[r]) + 1
         img_url == data[r].images_urls[idx]
         path == local_img_path(idx, img_url)
     IN  \E outcome \in DownloadOutcomes :
           /\ outcome # "http_error" => local_image_folder \in dirs
           /\ fs' = download_to_tmp(fs, r, path, <<>>, outcome)
           /\ fetches' = [fetches EXCEPT ![r] = Append(@, Fetch("image", idx, outcome))]
           /\ staged' = [staged EXCEPT ![r] =
                IF outcome = "http_error" THEN @ ELSE @ \cup {path}]
           /\ IF ~raised(outcome)
              THEN /\ local_image_paths' =
                        [local_image_paths EXCEPT ![r] = Append(@, Basename(path))]
                   /\ Goto(r, IF idx = Len(data[r].images_urls)
                              THEN "allocate" ELSE "download_images")
              ELSE /\ Return(r, Error(500, "Failed to download image"))
                   /\ UNCHANGED local_image_paths
  /\ UNCHANGED <<workers, dirs, bucket, data, lines, subtitle_durations,
                 last_subtitle_timestamp, final_video_duration, image_durations,
                 calls>>

\* num_images, subtitles_per_image, the assignment loop, the last extension.
Allocate(r) ==
  /\ r \in Handlers
  /\ pc[r] = "allocate"
  /\ LET num_images == Len(local_image_paths[r])
     IN  IF num_images = 0
         THEN /\ Return(r, Error(400, "No images were downloaded."))
              /\ UNCHANGED image_durations
         ELSE /\ image_durations' = [image_durations EXCEPT ![r] =
                   extend_last_image(assign_durations(subtitle_durations[r], num_images))]
              /\ Goto(r, "write_list")
  /\ UNCHANGED <<workers, fs, dirs, bucket, data, lines, subtitle_durations,
                 last_subtitle_timestamp, final_video_duration, local_image_paths,
                 calls, fetches, staged>>

\* A list writer that pairs the files with the durations in reverse order.
image_list_text_reversed(folder, paths, durs) ==
  [i \in 1..Len(paths) |-> <<Join(folder, paths[i]), durs[Len(paths) + 1 - i]>>]

\* The concat list: `file '<folder>/<img_file>'` then `duration <d>` per image.
image_list_text(folder, paths, durs) ==
  [i \in 1..Len(paths) |-> <<Join(folder, paths[i]), durs[i]>>]

WriteOutcomes == {"ok", "open_error", "write_error"}
WriteImageList(r) ==
  /\ r \in Handlers
  /\ pc[r] = "write_list"
  /\ \E outcome \in WriteOutcomes :
       /\ fs' = IF outcome = "open_error" THEN fs
                ELSE Write(fs, image_list_file,
                       File(r, IF outcome = "ok"
                               THEN image_list_text(local_image_folder,
                                      local_image_paths[r], image_durations[r])
                               ELSE Truncated))
       /\ staged' = [staged EXCEPT ![r] =
            IF outcome = "open_error" THEN @ ELSE @ \cup {image_list_file}]
       /\ IF outcome = "ok"
          THEN Goto(r, "stage1")
          ELSE Return(r, Error(500, "Failed to write image list file"))
  /\ UNCHANGED <<workers, dirs, bucket, data, locals, calls, fetches>>

\* What the encoder needs to succeed: every file it is told to read exists.
concat_inputs_ok(f, list_path) ==
  /\ Exists(f, list_path)
  /\ f[list_path].data # <<>>
  /\ \A k \in 1..Len(f[list_path].data) : Exists(f, f[list_path].data[k][1])
mux_inputs_ok(f, video, audio, subtitle) ==
  Exists(f, video) /\ Exists(f, audio) /\ Exists(f, subtitle)

\* subprocess.run(..., check=True) of an encoder command writing `out`:
\* exit 0 (the output exists), or non-zero (a partial output may stay behind).
run_ffmpeg(r, op, t, inputs_ok, out) ==
  \E ok \in BOOLEAN, written \in BOOLEAN :
    /\ ok => (inputs_ok /\ written)
    /\ fs' = IF written THEN Write(fs, out, File(r, <<>>)) ELSE fs
    /\ staged' = [staged EXCEPT ![r] = IF written THEN @ \cup {out} ELSE @]
    /\ calls' = [calls EXCEPT ![r] = Append(@, Call(op, ok, t))]

\* A caller that does not look at the encoder's exit status.
Succeeded_unchecked(r) == TRUE

\* check=True: did the command just run exit with status 0?
Succeeded(r) == calls'[r][Len(calls'[r])].ok

\* 9. ffmpeg -f concat -i image_list.txt ... temp_video.mp4
Stage1(r) ==
  /\ r \in Handlers
  /\ pc[r] = "stage1"
  /\ run_ffmpeg(r, "stage1", 0, concat_inputs_ok(fs, image_list_file), temp_video_path)
  /\ IF Succeeded(r)
     THEN Goto(r, "stage2")
     ELSE Return(r, Error(500, "FFmpeg failed during image->video step"))
  /\ UNCHANGED <<workers, fetches, dirs, bucket, data, locals>>

\* 10. ffmpeg -i temp_video -i audio -vf subtitles=... -t <duration> output
\* (the encoder refuses an output that is one of its -i inputs).
Stage2(r) ==
  /\ r \in Handlers
  /\ pc[r] = "stage2"
  /\ run_ffmpeg(r, "stage2", final_video_duration[r],
       /\ mux_inputs_ok(fs, temp_video_path, local_audio_path, local_subtitle_path)
       /\ local_output_path(r) \notin {temp_video_path, local_audio_path},
       local_output_path(r))
  /\ IF Succeeded(r)
     THEN Goto(r, "upload")
     ELSE Return(r, Error(500, "FFmpeg failed during final mux step"))
  /\ UNCHANGED <<workers, fetches, dirs, bucket, data, locals>>

\* 11. upload_to_gcs(local_output_path, bucket_name, gcs_output_path)
Upload(r) ==
  /\ r \in Handlers
  /\ pc[r] = "upload"
  /\ \E ok \in BOOLEAN :
       /\ ok => Exists(fs, local_output_path(r))
       /\ calls' = [calls EXCEPT ![r] = Append(@, Call("upload", ok, 0))]
       /\ IF ok
          THEN /\ bucket' = bucket \cup
                    {[name |-> data[r].output_name, by |-> r,
                      from |-> fs[local_output_path(r)].owner]}
               /\ Goto(r, "cleanup")
          ELSE /\ bucket' = bucket
               /\ Return(r, Error(500, "Failed to upload final video to GCS"))
  /\ UNCHANGED <<workers, fetches, fs, dirs, data, locals, staged>>

\* 12. The five safe_delete calls.
cleanup_paths(r) ==
  {temp_video_path, local_output_path(r), local_subtitle_path,
   local_audio_path, image_list_file}

CleanupFiles(r) ==
  /\ r \in Handlers
  /\ pc[r] = "cleanup"
  /\ fs' = safe_delete_all(fs, cleanup_paths(r))
  /\ staged' = [staged EXCEPT ![r] = @ \ cleanup_paths(r)]
  /\ Goto(r, "cleanup_images")
  /\ UNCHANGED <<workers, dirs, bucket, data, locals, calls, fetches>>

\* os.listdir, safe_delete of each entry, os.rmdir, and the success response.
CleanupImages(r) ==
  /\ r \in Handlers
  /\ pc[r] = "cleanup_images"
  /\ IF local_image_folder \notin dirs
     THEN /\ Return(r, Error(500, "Internal Server Error"))
          /\ UNCHANGED <<fs, dirs, staged>>
     ELSE /\ fs' = safe_delete_all(fs, listdir(fs, local_image_folder))
          /\ staged' = [staged EXCEPT ![r] = @ \ listdir(fs, local_image_folder)]
          /\ dirs' = dirs \ {local_image_folder}
          /\ Return(r, Response(200, "", final_video_duration[r], data[r].output_name))
  /\ UNCHANGED <<workers, bucket, data, locals, calls, fetches>>

\* ------------------------------------------------------- turner.py (script)
CwdDir == "."
image_folder == "images"
audio_file == Join("audio", <<"audio", 0, ".mp3">>)
subtitle_file == Join(CwdDir, <<"subtitle", 0, ".srt">>)
output_video == Join("output", <<"final_video", 0, ".mp4">>)
script_image_list_file == Join(CwdDir, <<"image_list", 0, ".txt">>)
script_temp_video == Join(CwdDir, <<"temp_video", 0, ".mp4">>)

\* What the images folder may hold: image_1.png .. image_k.png, and maybe a
\* file that is no image.
NotesName == <<"notes", 0, ".txt">>
ImageFolders ==
  { {<<"image_", i, ".png">> : i \in 1..k} \cup extra :
      k \in 0..MaxImages, extra \in {{}, {NotesName}} }

endswith_jpg_png(name) == name[3] \in {".jpg", ".png"}

\* sorted(...) of names image_<i>.png with i < 10: by index.
RECURSIVE sorted(_)
sorted(names) ==
  IF names = {} THEN <<>>
  ELSE LET first == CHOOSE n \in names : \A m \in names : n[2] <= m[2]
       IN  <<first>> \o sorted(names \ {first})

RECURSIVE write_all(_, _, _)
write_all(f, paths, file) ==
  IF paths = {} THEN f
  ELSE LET p == CHOOSE q \in paths : TRUE
       IN  write_all(Write(f, p, file), paths \ {p}, file)

\* The files the script finds in its working directory, and
\* os.makedirs(os.path.dirname(output_video), exist_ok=True).
ScriptStart ==
  /\ "script" \in workers
  /\ pc["script"] = "start"
  /\ \E text \in SrtTexts, folder \in ImageFolders :
       fs' = write_all(
               Write(Write(fs, subtitle_file, File("user", text)),
                     audio_file, File("user", <<>>)),
               {Join(image_folder, n) : n \in folder}, File("user", <<>>))
  /\ dirs' = dirs \cup {image_folder, "audio", "output"}
  /\ Goto("script", "parse")
  /\ UNCHANGED <<workers, bucket, data, locals, calls, fetches, staged>>

\* parse_srt_durations(subtitle_file), `subtitle_durations[-1] += 5` (an
\* IndexError on an empty list ends the script) and the final duration.
ScriptParse ==
  /\ pc["script"] = "parse"
  /\ LET text == fs[subtitle_file].data
         parsed == parse_srt_durations(text)
     IN  /\ lines' = [lines EXCEPT !["script"] = text]
         /\ last_subtitle_timestamp' =
              [last_subtitle_timestamp EXCEPT !["script"] = parsed.last_timestamp]
         /\ IF parsed.durations = <<>>
            THEN /\ Return("script", Error(1, "IndexError"))
                 /\ UNCHANGED <<subtitle_durations, final_video_duration>>
            ELSE /\ subtitle_durations' =
                      [subtitle_durations EXCEPT !["script"] = extend_last(parsed.durations)]
                 /\ final_video_duration' =
                      [final_video_duration EXCEPT !["script"] =
                         parsed.last_timestamp + TrailingBuffer]
                 /\ Goto("script", "allocate")
  /\ UNCHANGED <<workers, fs, dirs, bucket, data, local_image_paths,
                 image_durations, calls, fetches, staged>>

\* image_files, num_images, subtitles_per_image (a ZeroDivisionError when
\* there is no image ends the script), the assignment loop, the last extension.
ScriptAllocate ==
  /\ pc["script"] = "allocate"
  /\ LET image_files ==
           sorted({n \in {Basename(q) : q \in listdir(fs, image_folder)} :
                     endswith_jpg_png(n)})
         num_images == Len(image_files)
     IN  /\ local_image_paths' = [local_image_paths EXCEPT !["script"] = image_files]
         /\ IF num_images = 0
            THEN /\ Return("script", Error(1, "ZeroDivisionError"))
                 /\ UNCHANGED image_durations
            ELSE /\ image_durations' = [image_durations EXCEPT !["script"] =
                      extend_last_image(
                        assign_durations(subtitle_durations["script"], num_images))]
                 /\ Goto("script", "write_list")
  /\ UNCHANGED <<workers, fs, dirs, bucket, data, lines, subtitle_durations,
                 last_subtitle_timestamp, final_video_duration, calls, fetches,
                 staged>>

ScriptWriteList ==
  /\ pc["script"] = "write_list"
  /\ fs' = Write(fs, script_image_list_file,
             File("script", image_list_text(image_folder,
                    local_image_paths["script"], image_durations["script"])))
  /\ staged' = [staged EXCEPT !["script"] = @ \cup {script_image_list_file}]
  /\ Goto("script", "stage1")
  /\ UNCHANGED <<workers, dirs, bucket, data, locals, calls, fetches>>

\* subprocess.run(ffmpeg_image_to_video, check=True)
ScriptStage1 ==
  /\ pc["script"] = "stage1"
  /\ run_ffmpeg("script", "stage1", 0,
       concat_inputs_ok(fs, script_image_list_file), script_temp_video)
  /\ IF Succeeded("script")
     THEN Goto("script", "stage2")
     ELSE Return("script", Error(1, "CalledProcessError"))
  /\ UNCHANGED <<workers, fetches, dirs, bucket, data, locals>>

\* subprocess.run(ffmpeg_final_video, check=True)
ScriptStage2 ==
  /\ pc["script"] = "stage2"
  /\ run_ffmpeg("script", "stage2", final_video_duration["script"],
       mux_inputs_ok(fs, script_temp_video, audio_file, subtitle_file),
       output_video)
  /\ IF Succeeded("script")
     THEN Goto("script", "remove_temp")
     ELSE Return("script", Error(1, "CalledProcessError"))
  /\ UNCHANGED <<workers, fetches, dirs, bucket, data, locals>>

\* os.remove("temp_video.mp4") and the final print.
ScriptRemoveTemp ==
  /\ pc["script"] = "remove_temp"
  /\ fs' = Remove(fs, script_temp_video)
  /\ staged' = [staged EXCEPT !["script"] = @ \ {script_temp_video}]
  /\ Return("script",
       Response(0, "", final_video_duration["script"], Basename(output_video)))
  /\ UNCHANGED <<workers, dirs, bucket, data, locals, calls, fetches>>

\* ------------------------------------------------- an encoder that never exits
\* subprocess.run is given no timeout: while the encoder runs, the caller
\* waits in it.  An encoder that never exits (it may have created its output
\* by then) leaves the caller there: no statement after the call is reached.
encoder_output(r, stage) ==
  IF r = "script"
  THEN (IF stage = "stage1" THEN script_temp_video ELSE output_video)
  ELSE (IF stage = "stage1" THEN temp_video_path ELSE local_output_path(r))

EncoderHangs(r) ==
  /\ pc[r] \in {"stage1", "stage2"}
  /\ \E written \in BOOLEAN :
       LET out == encoder_output(r, pc[r])
       IN  /\ fs' = IF written THEN Write(fs, out, File(r, <<>>)) ELSE fs
           /\ staged' = [staged EXCEPT ![r] = IF written THEN @ \cup {out} ELSE @]
  /\ Goto(r, IF pc[r] = "stage1" THEN "stage1_waiting" ELSE "stage2_waiting")
  /\ UNCHANGED <<workers, dirs, bucket, data, locals, calls, fetches>>

\* ------------------------------------------------------------ specification
Next ==
  \/ \E r \in Handlers : Validate(r)
  \/ \E r \in Handlers : MakeDirs(r)
  \/ \E r \in Handlers : DownloadAudio(r)
  \/ \E r \in Handlers : DownloadSubtitle(r)
  \/ \E r \in Handlers : ParseSrt(r)
  \/ \E r \in Handlers : DownloadImage(r)
  \/ \E r \in Handlers : Allocate(r)
  \/ \E r \in Handlers : WriteImageList(r)
  \/ \E r \in Handlers : Stage1(r)
  \/ \E r \in Handlers : Stage2(r)
  \/ \E r \in Handlers : Upload(r)
  \/ \E r \in Handlers : CleanupFiles(r)
  \/ \E r \in Handlers : CleanupImages(r)
  \/ ScriptStart
  \/ ScriptParse
  \/ ScriptAllocate
  \/ ScriptWriteList
  \/ ScriptStage1
  \/ ScriptStage2
  \/ ScriptRemoveTemp
  \/ \E r \in Procs : EncoderHangs(r)

Spec == Init /\ [][Next]_vars

\* ------------------------------------------------- vocabulary of the claims
Done(r) == pc[r] = "done"
InFlight(r) == pc[r] \notin {"start", "done"}
Allocated(r) == image_durations[r] # <<>>

\* The cue durations of the track the process parsed, before any extension.
CueDurations(r) == parse_srt_durations(lines[r]).durations
NumCues(r) == Len(CueDurations(r))

\* The number of images the process was given.
ImageCount(r) ==
  IF r = "script"
  THEN Cardinality({q \in listdir(fs, image_folder) : endswith_jpg_png(Basename(q))})
  ELSE Len(data[r].images_urls)

\* max(1, floor(n / ic)), written out.
BlockSize(n, ic) == IF n \div ic >= 1 THEN n \div ic ELSE 1

\* The sum of the entries of s at the 0-based indices in idx.
RECURSIVE SumAt(_, _)
SumAt(s, idx) ==
  IF idx = {} THEN 0
  ELSE LET k == CHOOSE j \in idx : TRUE
       IN  s[k + 1] + SumAt(s, idx \ {k})

\* The 0-based cue indices of image i's block (i 0-based) that exist, for n
\* cues and ic images.
BlockIndices(n, ic, i) ==
  {k \in (i * BlockSize(n, ic))..(i * BlockSize(n, ic) + BlockSize(n, ic) - 1) : k < n}

TempVideoOf(r) == IF r = "script" THEN script_temp_video ELSE temp_video_path

HasCall(r, op, ok) ==
  \E i \in DOMAIN calls[r] : calls[r][i].op = op /\ calls[r][i].ok = ok

\* ----------------------------------------------------------------- claims

\* C1 (as claimed): when a request's response is returned, none of the files
\* that request wrote to its working area (subtitle, audio, image list,
\* intermediate video, output, images) exists any more, on every exit path.
C1_CleanupTotality ==
  \A r \in Handlers :
    Done(r) => \A p \in DOMAIN fs : fs[p].owner # r

\* C2 (as claimed): while a request is in flight, every file it has staged
\* and not yet deleted itself still exists and still holds what that request
\* wrote: no other request has written to the path or deleted the file.
C2_RequestIsolation ==
  \A r \in Handlers :
    InFlight(r) =>
      \A p \in staged[r] : Exists(fs, p) /\ fs[p].owner = r

\* C3 (as claimed): when the number of cues equals the number of images, every
\* image but the last gets its cue's duration and the last image gets the last
\* cue's duration plus the trailing buffer, added once.
C3_ScenarioA ==
  \A r \in workers :
    Allocated(r) =>
      LET cues == CueDurations(r)
          ic == ImageCount(r)
      IN  Len(cues) = ic =>
            \A i \in 1..ic :
              image_durations[r][i] =
                cues[i] + (IF i = ic THEN TrailingBuffer ELSE 0)

\* C4: the allocator returns exactly imageCount durations; with D the cue
\* durations whose last element is extended by the trailing buffer and
\* blockSize = max(1, N div imageCount), image i gets the sum of
\* D[i*blockSize : i*blockSize + blockSize], and the last image gets the
\* trailing buffer on top.
C4_AllocationAlgorithm ==
  \A r \in workers :
    Allocated(r) =>
      LET cues == CueDurations(r)
          n == Len(cues)
          ic == ImageCount(r)
          D == [cues EXCEPT ![n] = @ + TrailingBuffer]
      IN  /\ Len(image_durations[r]) = ic
          /\ \A i \in 0..(ic - 1) :
               image_durations[r][i + 1] =
                 SumAt(D, BlockIndices(n, ic, i))
                 + (IF i = ic - 1 THEN TrailingBuffer ELSE 0)

\* C4 witness: an allocation of 4 cues to 3 images has been made.
C4_Witness ==
  \E r \in workers : Allocated(r) /\ NumCues(r) = 4 /\ ImageCount(r) = 3

LastCueEnd(text) ==
  LET matching == {i \in 1..Len(text) : text[i].match}
  IN  IF matching = {} THEN 0
      ELSE LET last == CHOOSE i \in matching : \A j \in matching : j <= i
               g == text[last].g
           IN  ((g[5] * 60 + g[6]) * 60 + g[7]) * 1000 + g[8]

\* s with 1000 added to its entry at 0-based index k.
Perturbed(s, k) == [s EXCEPT ![k + 1] = @ + 1000]

\* C6: when N is not an exact multiple of imageCount, no cue at an index
\* >= imageCount * blockSize contributes to any image's duration (changing
\* such a cue changes no image duration), the last image's final duration is
\* the sum of its own block plus the trailing buffer, and the target duration
\* is still the last cue's end plus the trailing buffer.
C6_TruncationPolicy ==
  \A r \in workers :
    Allocated(r) =>
      LET cues == CueDurations(r)
          n == Len(cues)
          ic == ImageCount(r)
      IN  n % ic # 0 =>
            /\ \A k \in (ic * BlockSize(n, ic))..(n - 1) :
                 extend_last_image(
                   assign_durations(Perturbed(subtitle_durations[r], k), ic))
                 = image_durations[r]
            /\ image_durations[r][ic] =
                 SumAt(cues, BlockIndices(n, ic, ic - 1)) + TrailingBuffer
            /\ final_video_duration[r] = LastCueEnd(lines[r]) + TrailingBuffer

\* C6 witness: 5 cues have been allocated to 2 images (the fifth is dropped).
C6_Witness ==
  \E r \in workers : Allocated(r) /\ NumCues(r) = 5 /\ ImageCount(r) = 2

\* C7: once the track is parsed, the target duration is the end timestamp of
\* the last parsed cue plus the trailing buffer, whatever the image count;
\* encoder stage 2 is given that value as its duration cap, and the success
\* response reports it.
C7_BufferInvariant ==
  \A r \in workers :
    LET target == LastCueEnd(lines[r]) + TrailingBuffer
    IN  /\ subtitle_durations[r] # <<>> => final_video_duration[r] = target
        /\ \A i \in DOMAIN calls[r] :
             calls[r][i].op = "stage2" => calls[r][i].t = target
        /\ (Done(r) /\ resp[r].error = "") =>
             (resp[r].final_duration_seconds = target /\ HasCall(r, "stage2", TRUE))

\* C7 witness: a request with 3 cues and 2 images (one cue dropped by the
\* allocator) has returned its success response.
C7_Witness ==
  \E r \in Handlers :
    resp[r].status = 200 /\ NumCues(r) = 3 /\ ImageCount(r) = 2

StageOneError(r) ==
  IF r = "script" THEN Error(1, "CalledProcessError")
  ELSE Error(500, "FFmpeg failed during image->video step")

\* C8: encoder stage 2 is invoked only after encoder stage 1 has exited with
\* status 0; when stage 1 exits non-zero the process ends with the slideshow
\* encode error, and neither stage 2 nor the publisher is ever invoked.
C8_StageOrdering ==
  \A r \in workers :
    /\ \A i \in DOMAIN calls[r] :
         calls[r][i].op = "stage2" =>
           \E j \in 1..(i - 1) : calls[r][j].op = "stage1" /\ calls[r][j].ok
    /\ HasCall(r, "stage1", FALSE) =>
         /\ Done(r)
         /\ resp[r] = StageOneError(r)
         /\ \A i \in DOMAIN calls[r] : calls[r][i].op = "stage1"

\* C8 witness: encoder stage 1 has exited non-zero in a request.
C8_Witness == \E r \in Handlers : HasCall(r, "stage1", FALSE)

\* C9: the publisher is called at most once per request, and only after both
\* encoder stages have exited with status 0; a request in which no upload
\* succeeded has put nothing in the bucket and returns no output locator.
C9_NoPartialPublish ==
  \A r \in Handlers :
    /\ Cardinality({i \in DOMAIN calls[r] : calls[r][i].op = "upload"}) <= 1
    /\ \A i \in DOMAIN calls[r] :
         calls[r][i].op = "upload" =>
           \E j \in 1..(i - 1), k \in 1..(i - 1) :
             /\ j < k
             /\ calls[r][j].op = "stage1" /\ calls[r][j].ok
             /\ calls[r][k].op = "stage2" /\ calls[r][k].ok
    /\ ~HasCall(r, "upload", TRUE) =>
         /\ resp[r].gcs_url = NoName
         /\ \A b \in bucket : b.by # r

\* C9 witness: a request has uploaded its output.
C9_Witness == \E r \in Handlers : HasCall(r, "upload", TRUE)

\* C10 (as claimed): when a process whose encoder stage 1 produced the
\* intermediate video has ended, that intermediate file is gone.
C10_IntermediateRemoved ==
  \A r \in workers :
    (Done(r) /\ HasCall(r, "stage1", TRUE)) =>
      ~(Exists(fs, TempVideoOf(r)) /\ fs[TempVideoOf(r)].owner = r)


\* The subtitle file a process parses, and the number of its lines that match
\* the cue timestamp pattern.
SubtitleOf(r) == IF r = "script" THEN subtitle_file ELSE local_subtitle_path
MatchingLines(text) == {i \in DOMAIN text : text[i].match}

\* r takes its parse step on a subtitle file none of whose lines matches.
ParsesEmptyTrack(r) ==
  /\ pc[r] = "parse"
  /\ pc'[r] # "parse"
  /\ Exists(fs, SubtitleOf(r))
  /\ MatchingLines(fs[SubtitleOf(r)].data) = {}

\* C11: a process that parses a track with no matching line ends there with
\* the empty-timeline error, having invoked neither encoder stage nor the
\* publisher, in the HTTP handler and in the standalone script alike.
C11_EmptyTimeline ==
  [][\A r \in workers :
       ParsesEmptyTrack(r) =>
         /\ pc'[r] = "done"
         /\ resp'[r].error = "No valid subtitles parsed from SRT"
         /\ calls'[r] = <<>>]_vars

\* The error a failed download of each kind is answered with.
FetchError(what) ==
  IF what = "image" THEN "Failed to download image"
  ELSE "Failed to download audio or subtitle"

\* C12: a request one of whose downloads (audio, subtitle or any image) failed
\* has ended with status 500 and the download error of that resource, and has
\* invoked no encoder stage and no upload; no download follows the failed one.
C12_FetchFailureAborts ==
  \A r \in workers \cap Handlers :
    \A i \in DOMAIN fetches[r] :
      fetches[r][i].outcome # "ok" =>
        /\ Done(r)
        /\ resp[r] = Error(500, FetchError(fetches[r][i].what))
        /\ calls[r] = <<>>
        /\ \A o \in bucket : o.by # r
        /\ i = Len(fetches[r])

\* The second image of a request fails to download after the first arrived.
C12_Witness ==
  \E r \in Handlers :
    /\ Len(fetches[r]) = 4
    /\ fetches[r][3].outcome = "ok"
    /\ fetches[r][4] = Fetch("image", 2, "stream_error")
    /\ Done(r)


\* The process got as far as counting its images and has none: the handler
\* was posted an empty images_urls list, the script's parsed track has cues
\* and its images folder holds no .jpg or .png file.
NoImagesCase(r) ==
  IF r = "script"
  THEN /\ pc[r] \notin {"start", "parse", "allocate"}
       /\ subtitle_durations[r] # <<>>
       /\ ImageCount(r) = 0
  ELSE /\ pc[r] # "start"
       /\ data[r].json
       /\ data[r].images_urls = <<>>

\* The error outcomes the code defines for a request without images.
NoImagesErrors == {"No images were downloaded.", "Missing required fields in JSON"}

\* C13: a process that has no image ends with a defined no-images error, not
\* with an arithmetic crash, and invokes no encoder stage, in the HTTP handler
\* and in the standalone script alike.
C13_NoImages ==
  \A r \in workers :
    NoImagesCase(r) =>
      /\ Done(r)
      /\ resp[r].error \in NoImagesErrors
      /\ calls[r] = <<>>

\* Any step of process r.
Step(r) ==
  IF r = "script"
  THEN \/ ScriptStart
       \/ ScriptParse
       \/ ScriptAllocate
       \/ ScriptWriteList
       \/ ScriptStage1
       \/ ScriptStage2
       \/ ScriptRemoveTemp
       \/ EncoderHangs(r)
  ELSE \/ Validate(r)
       \/ MakeDirs(r)
       \/ DownloadAudio(r)
       \/ DownloadSubtitle(r)
       \/ ParseSrt(r)
       \/ DownloadImage(r)
       \/ Allocate(r)
       \/ WriteImageList(r)
       \/ Stage1(r)
       \/ Stage2(r)
       \/ Upload(r)
       \/ CleanupFiles(r)
       \/ CleanupImages(r)
       \/ EncoderHangs(r)

\* C14: no process is ever stuck: as long as it has not reached its terminal
\* state it has a step to take.  In particular a process whose encoder never
\* exits is not left waiting for it: a timeout ends the invocation and the
\* process goes on to its terminal state.
C14_EncoderTimeout ==
  \A r \in workers : Done(r) \/ ENABLED Step(r)


\* The index of the k-th line of the track that matches the cue pattern.
KthMatch(text, k) ==
  CHOOSE i \in MatchingLines(text) :
    Cardinality({j \in MatchingLines(text) : j <= i}) = k

\* end - start of a cue line, in milliseconds.
ExactDuration(line) ==
  (((line.g[5] - line.g[1]) * 60 + (line.g[6] - line.g[2])) * 60
     + (line.g[7] - line.g[3])) * 1000 + (line.g[8] - line.g[4])

\* s without the trailing buffer the caller added to its last entry.
Unextended(s) == [k \in DOMAIN s |-> s[k] - (IF k = Len(s) THEN TrailingBuffer ELSE 0)]

\* C15: the parser returns exactly one duration per line that matches the cue
\* pattern, in the order of the lines, and nothing for the other lines; each
\* duration is end - start rounded to a multiple of 10 ms (two decimals of a
\* second); the last end timestamp returned is that of the last matching
\* line.  A track without a matching line yields no duration at all.
C15_ParserOutput ==
  \A r \in workers :
    LET text == lines[r]
        n == Cardinality(MatchingLines(text))
        parsed == Unextended(subtitle_durations[r])
    IN  /\ (text # <<>> /\ n = 0) => (subtitle_durations[r] = <<>> /\ Done(r))
        /\ subtitle_durations[r] # <<>> =>
             /\ Len(parsed) = n
             /\ \A k \in 1..n :
                  LET exact == ExactDuration(text[KthMatch(text, k)])
                  IN  /\ parsed[k] % 10 = 0
                      /\ parsed[k] - exact <= 5
                      /\ exact - parsed[k] <= 5
             /\ last_subtitle_timestamp[r] = LastCueEnd(text)

\* C15 witness: a track of two different cues, each between two lines that do
\* not match, has been parsed.
C15_Witness ==
  \E r \in workers :
    /\ lines[r] = Blocks(<<LineA, LineB>>)
    /\ Len(subtitle_durations[r]) = 2


\* The extension of the k-th URL's path component, `.jpg` when it has none.
ExtOf(img_url) == IF img_url.ext = "" THEN ".jpg" ELSE img_url.ext

\* C16: the concat list a request has written consists of exactly one pair of
\* lines per image: the k-th pair names the local copy of the k-th URL of
\* images_urls (image_<k> with that URL's extension, in the images folder) and
\* gives the k-th allocated duration; the order is that of images_urls.
C16_FrameSourceOrder ==
  \A r \in workers \cap Handlers :
    (/\ pc[r] \in {"stage1", "stage1_waiting"}
     /\ Exists(fs, image_list_file)
     /\ fs[image_list_file].owner = r) =>
      LET list == fs[image_list_file].data
          urls == data[r].images_urls
      IN  /\ Len(list) = Len(urls)
          /\ Len(image_durations[r]) = Len(urls)
          /\ \A k \in 1..Len(urls) :
               list[k] = << <<"/tmp/images", "image_", k, ExtOf(urls[k])>>,
                            image_durations[r][k] >>

\* C16 witness: a request with three images whose URLs alternate between
\* no extension and .png has written its list and is about to run stage 1.
C16_Witness ==
  \E r \in Handlers :
    /\ pc[r] = "stage1"
    /\ data[r].images_urls = <<UrlNoExt, UrlPng, UrlNoExt>>
    /\ Exists(fs, image_list_file)
    /\ Len(fs[image_list_file].data) = 3
    /\ NumCues(r) = 2


\* Every cue line of the track ends no earlier than it starts.
WellFormed(text) ==
  \A i \in MatchingLines(text) : end_time(text[i].g) >= start_time(text[i].g)

\* C17: when every cue line of the parsed track has end >= start, every
\* parsed cue duration is >= 0, and every allocated image duration is >= 0
\* both before and after the trailing buffer is added to the last image.
C17_NonNegativity ==
  \A r \in workers :
    WellFormed(lines[r]) =>
      /\ \A k \in DOMAIN subtitle_durations[r] :
           Unextended(subtitle_durations[r])[k] >= 0
      /\ \A i \in DOMAIN image_durations[r] :
           /\ Unextended(image_durations[r])[i] >= 0
           /\ image_durations[r][i] >= 0

\* C17 witness: three well-formed cues have been allocated to two images.
C17_Witness ==
  \E r \in workers :
    /\ Allocated(r)
    /\ lines[r] = <<LineA, LineA, LineA>>
    /\ ImageCount(r) = 2

\* C18: with more images than cues, each of the first N images gets its own
\* cue's duration (the N-th the last cue's duration plus the trailing
\* buffer), every image after them but the last gets exactly 0, and the last
\* image gets exactly the trailing buffer.
C18_MoreImagesThanCues ==
  \A r \in workers :
    Allocated(r) =>
      LET cues == CueDurations(r)
          n == Len(cues)
          ic == ImageCount(r)
      IN  ic > n =>
            \A i \in 0..(ic - 1) :
              image_durations[r][i + 1] =
                IF i < n - 1 THEN cues[i + 1]
                ELSE IF i = n - 1 THEN cues[n] + TrailingBuffer
                ELSE IF i < ic - 1 THEN 0
                ELSE TrailingBuffer

\* C18 witness: one cue has been allocated to three images.
C18_Witness ==
  \E r \in workers : Allocated(r) /\ NumCues(r) = 1 /\ ImageCount(r) = 3


\* The request r received has no JSON body or lacks a required field.
Incomplete(r) ==
  /\ pc[r] # "start"
  /\ \/ ~data[r].json
     \/ data[r].images_urls = <<>>
     \/ ~data[r].audio_url
     \/ ~data[r].subtitle_url
     \/ ~data[r].bucket_name

\* C19: a request without a JSON body, with an empty images_urls list or
\* without audio_url, subtitle_url or bucket_name has been answered with
\* status 400, and on its behalf no directory was created, no file downloaded
\* or written, no encoder invoked and no upload attempted.
C19_ValidationNoSideEffects ==
  \A r \in workers \cap Handlers :
    Incomplete(r) =>
      /\ Done(r)
      /\ resp[r].status = 400
      /\ fetches[r] = <<>>
      /\ calls[r] = <<>>
      /\ staged[r] = {}
      /\ \A p \in DOMAIN fs : fs[p].owner # r
      /\ \A o \in bucket : o.by # r
      /\ workers = {r} => (dirs = {} /\ fs = <<>> /\ bucket = {})

\* C19 witness: a request with a JSON body that names no bucket was rejected.
C19_Witness ==
  \E r \in Handlers :
    /\ Done(r)
    /\ data[r].json
    /\ data[r].images_urls # <<>>
    /\ ~data[r].bucket_name

\* C20 (as claimed): whatever output_name an accepted request carries, the
\* output path it is about to pass to encoder stage 2 differs from the paths
\* that stage reads (intermediate video, audio, subtitle) and from the path
\* of the concat list.
C20_NoPathAliasing ==
  \A r \in workers \cap Handlers :
    pc[r] = "stage2" =>
      local_output_path(r) \notin
        {temp_video_path, local_audio_path, local_subtitle_path, image_list_file}

====
